---- MODULE Spec2Model ----
(***************************************************************************)
(* Edge synthesis for the school navigation graph.                         *)
(*                                                                         *)
(*   scripts/regenerate_edges.py        -> specification Spec              *)
(*   add_edge of regenerate_edges.py    -> specification SpecAddEdge       *)
(*   school-nav-data/generate_all_edges.py -> specification SpecGen        *)
(*   has_collision of generate_all_edges.py -> specification SpecCollision *)
(*                                                                         *)
(* Floats: every distance of regenerate_edges.py is math.hypot of two      *)
(* coordinate differences.  The model works on integer coordinates and     *)
(* represents the float hypot(dx, dy) by its square dx*dx + dy*dy: on the  *)
(* coordinates used here the map d |-> d*d is a bijection that preserves   *)
(* <, <= and =, which are the only operations the program applies to a     *)
(* distance before it formats it (Fmt2).                                   *)
(***************************************************************************)
EXTENDS Integers, Sequences, FiniteSets, TLC

VARIABLES
    prog,     \* which program this behaviour runs
    nodes,    \* regenerate_edges: the node table, rows in file order
    edges,    \* regenerate_edges: the edge map, canonical key -> <<dist, accessible>>
    pc,       \* regenerate_edges: position in main
    fi,       \* regenerate_edges: index of the floor the per-floor loop is at
    calls,    \* history: the add_edge calls made so far, tagged by the step
    rows,     \* regenerate_edges: the rows written
    trace,    \* SpecAddEdge: the add_edge calls made so far, in call order
    image,    \* generate_all_edges: the floor plan of floor "G"; has_collision: its image argument
    all_edges,\* generate_all_edges: the rows appended so far, then the rows saved
    args,     \* has_collision: its arguments <<a, b, scale>>
    result    \* has_collision: what it returned

vars == <<prog, nodes, edges, pc, fi, calls, rows, trace, image, all_edges, args, result>>
genVars == <<image, all_edges, args, result>>

(***************************************************************************)
(* Bounds of the model and the input universe.                             *)
(***************************************************************************)
MaxNodes == 4
MaxCalls == 3

\* Node ids of the tables, in file order (slot i of a table has id IDS[i]).
IDS == <<"room_gf_10", "stair_gf_1", "lift_gf_2", "stair_ff_1", "room_gf_101", "corr_ff_3">>

\* Coordinates of slot i.
POS == << <<0, 0>>, <<3, 0>>, <<0, 3>>, <<3, 4>>, <<6, 0>>, <<6, 4>> >>

Types == {"corridor", "room", "entrance", "stair", "lift"}

\* The characters of each id, for string comparison and the regular expression.
IdChars ==
    ("room_gf_10"  :> <<"r","o","o","m","_","g","f","_","1","0">>) @@
    ("stair_gf_1"  :> <<"s","t","a","i","r","_","g","f","_","1">>) @@
    ("lift_gf_2"   :> <<"l","i","f","t","_","g","f","_","2">>) @@
    ("stair_ff_1"  :> <<"s","t","a","i","r","_","f","f","_","1">>) @@
    ("room_gf_101" :> <<"r","o","o","m","_","g","f","_","1","0","1">>) @@
    ("corr_ff_3"   :> <<"c","o","r","r","_","f","f","_","3">>) @@
    ("room_gf_102" :> <<"r","o","o","m","_","g","f","_","1","0","2">>) @@
    ("room_gf_103" :> <<"r","o","o","m","_","g","f","_","1","0","3">>) @@
    ("room_gf_120" :> <<"r","o","o","m","_","g","f","_","1","2","0">>) @@
    ("room_gf_121" :> <<"r","o","o","m","_","g","f","_","1","2","1">>)

\* Code points of the characters that occur in ids.
Ascii ==
    ("0" :> 48) @@ ("1" :> 49) @@ ("2" :> 50) @@ ("3" :> 51) @@ ("\\" :> 92) @@
    ("_" :> 95) @@ ("a" :> 97) @@ ("c" :> 99) @@ ("d" :> 100) @@ ("f" :> 102) @@
    ("g" :> 103) @@ ("i" :> 105) @@ ("l" :> 108) @@ ("m" :> 109) @@ ("o" :> 111) @@
    ("r" :> 114) @@ ("s" :> 115) @@ ("t" :> 116)

Digits == {"0", "1", "2", "3", "4", "5", "6", "7", "8", "9"}

(***************************************************************************)
(* Python built-ins the program relies on.                                 *)
(***************************************************************************)
RECURSIVE SeqLess(_, _)
\* str.__lt__ on the characters: lexicographic by code point.
SeqLess(s, t) ==
    IF t = <<>> THEN FALSE
    ELSE IF s = <<>> THEN TRUE
    ELSE IF Ascii[Head(s)] # Ascii[Head(t)] THEN Ascii[Head(s)] < Ascii[Head(t)]
    ELSE SeqLess(Tail(s), Tail(t))

StrLess(a, b) == SeqLess(IdChars[a], IdChars[b])

RECURSIVE Filter(_, _)
\* [x for x in s if P(x)]
Filter(P(_), s) ==
    IF s = <<>> THEN <<>>
    ELSE (IF P(Head(s)) THEN <<Head(s)>> ELSE <<>>) \o Filter(P, Tail(s))

RECURSIVE FlatMap(_, _)
\* the concatenation of F(x) for x in s, in order
FlatMap(F(_), s) ==
    IF s = <<>> THEN <<>> ELSE F(Head(s)) \o FlatMap(F, Tail(s))

Range(s) == {s[i] : i \in 1..Len(s)}

Take(s, k) == SubSeq(s, 1, IF Len(s) < k THEN Len(s) ELSE k)

\* insert p behind every element of the sorted s whose key is <= p's key
InsertByKey(s, p) ==
    LET n == Cardinality({i \in 1..Len(s) : s[i][1] <= p[1]})
    IN  SubSeq(s, 1, n) \o <<p>> \o SubSeq(s, n + 1, Len(s))

RECURSIVE SortByKey(_)
\* sorted(s, key=lambda x: x[0]): stable
SortByKey(s) ==
    IF s = <<>> THEN <<>>
    ELSE InsertByKey(SortByKey(SubSeq(s, 1, Len(s) - 1)), s[Len(s)])

RECURSIVE Isqrt(_, _, _)
\* the largest n in lo..hi with n*n <= v
Isqrt(v, lo, hi) ==
    IF lo = hi THEN lo
    ELSE LET mid == (lo + hi + 1) \div 2
         IN  IF mid * mid <= v THEN Isqrt(v, mid, hi) ELSE Isqrt(v, lo, mid - 1)

\* the integer nearest to 100*sqrt(d2) (never a tie: 40000*d2 is no odd square);
\* the search stays below 2^31
Hundredths(d2) ==
    (Isqrt(40000 * d2, 0, IF d2 <= 230 THEN 200 * (d2 + 1) ELSE 46340) + 1) \div 2

\* f"{dist:.2f}" of the distance whose square is d2, in hundredths
Fmt2(d2) == Hundredths(d2)

\* str(accessible).lower()
StrLower(b) == IF b THEN "true" ELSE "false"

(***************************************************************************)
(* regenerate_edges.py                                                     *)
(***************************************************************************)
CORRIDOR_NEIGHBORS == 5
NODE_TO_CORRIDOR_NEIGHBORS == 3
OUTSIDE_NODE_IDS ==
    {"room_gf_10", "room_gf_101", "room_gf_104", "room_gf_108", "room_gf_125",
     "room_gf_102", "room_gf_103", "room_gf_121", "room_gf_120", "room_gf_109",
     "room_gf_105", "room_gf_116", "room_gf_117", "room_gf_106", "room_gf_107",
     "room_gf_118", "room_gf_119"}

None == <<>>

\* None, where an image is expected
NoImage == [mode |-> "none"]

\* nodes[nid]
N(nid) == nodes[CHOOSE i \in 1..Len(nodes) : nodes[i].id = nid]

\* the keys of the nodes dict, in insertion order
NodeIds == [i \in 1..Len(nodes) |-> nodes[i].id]

euclid(a, b) ==
    LET A == N(a)
        B == N(b)
    IN  (A.x - B.x) * (A.x - B.x) + (A.y - B.y) * (A.y - B.y)

\* tuple(sorted((a, b)))
EdgeKey(a, b) == IF StrLess(b, a) THEN <<b, a>> ELSE <<a, b>>

add_edge_le(e, a, b, dist, accessible) ==
    LET key == EdgeKey(a, b)
    IN  IF key \notin DOMAIN e \/ dist <= e[key][1]
        THEN [k \in DOMAIN e \cup {key} |->
                 IF k = key THEN <<dist, accessible>> ELSE e[k]]
        ELSE e

add_edge(e, a, b, dist, accessible) ==
    LET key == EdgeKey(a, b)
    IN  IF key \notin DOMAIN e \/ dist < e[key][1]
        THEN [k \in DOMAIN e \cup {key} |->
                 IF k = key THEN <<dist, accessible>> ELSE e[k]]
        ELSE e

\* One add_edge call, as the steps of main record it.
Call(a, b, dist, accessible) == [a |-> a, b |-> b, dist |-> dist, acc |-> accessible]

RECURSIVE ApplyCalls(_, _)
\* the edge map after the calls cs, made in order
ApplyCalls(e, cs) ==
    IF cs = <<>> THEN e
    ELSE ApplyCalls(add_edge(e, Head(cs).a, Head(cs).b, Head(cs).dist, Head(cs).acc),
                    Tail(cs))

nearest(target, candidates, k) ==
    Take(SortByKey([i \in 1..Len(candidates) |->
                       <<euclid(target, candidates[i]), candidates[i]>>]), k)

\* by_floor: the floors in order of first appearance, and each floor's ids
FloorOrder ==
    LET first(i) == \A j \in 1..(i - 1) : nodes[j].floor # nodes[i].floor
        IsFirst(i) == first(i)
        idx == Filter(IsFirst, [i \in 1..Len(nodes) |-> i])
    IN  [k \in 1..Len(idx) |-> nodes[idx[k]].floor]

FloorIds(floor) ==
    LET OnFloor(nid) == N(nid).floor = floor
    IN  Filter(OnFloor, NodeIds)

IsCorridor(nid) == N(nid).type = "corridor"
IsEntrance(nid) == N(nid).type = "entrance"
NotCorridor(nid) == N(nid).type # "corridor"

\* main, lines 131-134: corridor <-> corridor
MeshCalls(ids) ==
    LET corridors == Filter(IsCorridor, ids)
        Of(cid) ==
            LET Other(c) == c # cid
                near == nearest(cid, Filter(Other, corridors), CORRIDOR_NEIGHBORS)
            IN  [i \in 1..Len(near) |-> Call(cid, near[i][2], near[i][1], TRUE)]
    IN  FlatMap(Of, corridors)

\* accessible of an ordinary leaf edge (line 155)
LeafAccessible(nid) == N(nid).type # "stair"

PreferEntranceStrict(best_entrance, best_corridor) ==
    best_entrance # None /\ (best_corridor = None \/ best_entrance[1] < best_corridor[1])

\* the test of line 146
PreferEntrance(best_entrance, best_corridor) ==
    best_entrance # None /\ (best_corridor = None \/ best_entrance[1] <= best_corridor[1])

\* main, lines 136-156: node -> corridor.  Each call carries the branch that made it.
LeafCalls(ids) ==
    LET corridors == Filter(IsCorridor, ids)
        entrances == Filter(IsEntrance, ids)
        non_corridors == Filter(NotCorridor, ids)
        Tag(cs, branch) == [i \in 1..Len(cs) |-> [branch |-> branch] @@ cs[i]]
        Of(nid) ==
            IF corridors = <<>> THEN <<>>
            ELSE IF nid \in OUTSIDE_NODE_IDS /\ entrances # <<>>
            THEN LET nearest_entrances ==
                         nearest(nid, entrances, NODE_TO_CORRIDOR_NEIGHBORS)
                     nearest_corridors ==
                         nearest(nid, corridors, NODE_TO_CORRIDOR_NEIGHBORS)
                     best_entrance ==
                         IF nearest_entrances # <<>> THEN nearest_entrances[1] ELSE None
                     best_corridor ==
                         IF nearest_corridors # <<>> THEN nearest_corridors[1] ELSE None
                 IN  IF PreferEntrance(best_entrance, best_corridor)
                     THEN Tag([i \in 1..Len(nearest_entrances) |->
                                  Call(nid, nearest_entrances[i][2],
                                       nearest_entrances[i][1], TRUE)], "entrance")
                     ELSE Tag([i \in 1..Len(nearest_corridors) |->
                                  Call(nid, nearest_corridors[i][2],
                                       nearest_corridors[i][1], TRUE)], "outside_corridor")
            ELSE LET near == nearest(nid, corridors, NODE_TO_CORRIDOR_NEIGHBORS)
                 IN  Tag([i \in 1..Len(near) |->
                             Call(nid, near[i][2], near[i][1], LeafAccessible(nid))],
                         "corridor")
    IN  FlatMap(Of, non_corridors)

(***************************************************************************)
(* connect_components                                                      *)
(***************************************************************************)
\* adj, lines 71-76: the neighbours of u over the same-floor edges of e
Adj(e, u) ==
    {v \in Range(NodeIds) :
        /\ (<<u, v>> \in DOMAIN e \/ <<v, u>> \in DOMAIN e)
        /\ N(u).floor = N(v).floor}

RECURSIVE Reach(_, _)
\* the traversal of lines 82-90 from the set S: everything reachable over adj
Reach(e, S) ==
    LET T == S \cup UNION {Adj(e, u) : u \in S}
    IN  IF T = S THEN S ELSE Reach(e, T)

\* the components found by lines 78-91, as a set (the order is the traversal's)
Components(ids, e) == {Reach(e, {u}) : u \in Range(ids)}

RECURSIVE Orders(_)
\* every order in which a Python set may hand out its members
Orders(S) ==
    IF S = {} THEN {<<>>}
    ELSE UNION {{<<x>> \o r : r \in Orders(S \ {x})} : x \in S}

RECURSIVE CompOrders(_)
\* every list `components` can be: the components in the order remaining.pop()
\* discovers them, each with the order in which its set is iterated
CompOrders(C) ==
    IF C = {} THEN {<<>>}
    ELSE UNION {{<<l>> \o r : l \in Orders(c), r \in CompOrders(C \ {c})} : c \in C}

RECURSIVE BestPair(_, _)
\* lines 105-110: the fold of `best` over the pairs ps = <<d, a, b>> in loop order
BestPair(best, ps) ==
    IF ps = <<>> THEN best
    ELSE BestPair(IF best = None \/ Head(ps)[1] < best[1] THEN Head(ps) ELSE best,
                  Tail(ps))

RECURSIVE Stitch(_, _)
\* lines 103-114: the calls made while stitching the subsets rest onto base
Stitch(base, rest) ==
    IF rest = <<>> THEN <<>>
    ELSE LET subset == Head(rest)
             PairsOf(a) == [j \in 1..Len(subset) |-> <<euclid(a, subset[j]), a, subset[j]>>]
             best == BestPair(None, FlatMap(PairsOf, base))
         IN  IF best # None
             THEN <<Call(best[2], best[3], euclid(best[2], best[3]), TRUE)>>
                      \o Stitch(base \o subset, Tail(rest))
             ELSE Stitch(base, Tail(rest))

connect_components_two(ids, cl) ==
    IF Len(cl) <= 2 THEN <<>>
    ELSE LET corridors == Filter(IsCorridor, ids)
             InCorridors(n) == n \in Range(corridors)
             comp_corridors ==
                 [i \in 1..Len(cl) |->
                     LET subset == Filter(InCorridors, cl[i])
                     IN  IF subset # <<>> THEN subset ELSE cl[i]]
         IN  Stitch(comp_corridors[1], Tail(comp_corridors))

\* connect_components(floor_nodes, edges, nodes) once `components` is the list cl
connect_components(ids, cl) ==
    IF Len(cl) <= 1 THEN <<>>
    ELSE LET corridors == Filter(IsCorridor, ids)
             InCorridors(n) == n \in Range(corridors)
             comp_corridors ==
                 [i \in 1..Len(cl) |->
                     LET subset == Filter(InCorridors, cl[i])
                     IN  IF subset # <<>> THEN subset ELSE cl[i]]
         IN  Stitch(comp_corridors[1], Tail(comp_corridors))

(***************************************************************************)
(* vertical linking                                                        *)
(***************************************************************************)
\* re.search(r"(\\d+)$", nid): the pattern is a backslash, one or more letters d,
\* then the end.  The leftmost match's text, or None.
ReSearch(nid) ==
    LET cs == IdChars[nid]
        starts == {i \in 1..(Len(cs) - 1) :
                      cs[i] = "\\" /\ \A j \in (i + 1)..Len(cs) : cs[j] = "d"}
    IN  IF starts = {} THEN None
        ELSE SubSeq(cs, CHOOSE i \in starts : \A j \in starts : i <= j, Len(cs))

\* line 168: key = m.group(1) if m else nid
StairKey(nid) == IF ReSearch(nid) # None THEN ReSearch(nid) ELSE IdChars[nid]

\* "stair" in data["type"], on the types of the model
IsStair(nid) == N(nid).type = "stair"
IsLift(nid) == N(nid).type = "lift"

\* list(combinations(group, 2))
Combinations2(group) ==
    LET From(i) == [j \in 1..(Len(group) - i) |-> <<group[i], group[i + j]>>]
    IN  FlatMap(From, [i \in 1..Len(group) |-> i])

\* the values of stair_groups, in insertion order of their keys
StairGroups ==
    LET stairs == Filter(IsStair, NodeIds)
        IsFirst(i) == \A j \in 1..(i - 1) : StairKey(stairs[j]) # StairKey(stairs[i])
        firsts == Filter(IsFirst, [i \in 1..Len(stairs) |-> i])
    IN  [g \in 1..Len(firsts) |->
            LET SameKey(nid) == StairKey(nid) = StairKey(stairs[firsts[g]])
            IN  Filter(SameKey, stairs)]

\* the values of lift_groups
LiftGroups ==
    LET lifts == Filter(IsLift, NodeIds)
    IN  IF lifts = <<>> THEN <<>> ELSE <<lifts>>

\* lines 174-178 and 180-184
LinkCalls(groups, accessible) ==
    LET Of(group) ==
            IF Len(group) < 2 THEN <<>>
            ELSE LET cmb == Combinations2(group)
                 IN  [i \in 1..Len(cmb) |->
                         Call(cmb[i][1], cmb[i][2], euclid(cmb[i][1], cmb[i][2]), accessible)]
    IN  FlatMap(Of, groups)

(***************************************************************************)
(* writing the rows                                                        *)
(***************************************************************************)
Row(from, to, dist, accessible) ==
    [from |-> from, to |-> to, distance |-> Fmt2(dist), accessible |-> StrLower(accessible)]

\* r["from"], r["to"] of p before that of q
RowKeyLeq(p, q) ==
    \/ StrLess(p.from, q.from)
    \/ p.from = q.from /\ ~StrLess(q.to, p.to)

InsertRow(s, p) ==
    LET n == Cardinality({i \in 1..Len(s) : RowKeyLeq(s[i], p)})
    IN  SubSeq(s, 1, n) \o <<p>> \o SubSeq(s, n + 1, Len(s))

RECURSIVE SortRows(_)
\* rows.sort(key=lambda r: (r["from"], r["to"]))
SortRows(s) ==
    IF s = <<>> THEN <<>>
    ELSE InsertRow(SortRows(SubSeq(s, 1, Len(s) - 1)), s[Len(s)])

RECURSIVE RowsOneWay(_, _)
RowsOneWay(e, K) ==
    IF K = {} THEN <<>>
    ELSE LET k == CHOOSE x \in K : TRUE
         IN  <<Row(k[1], k[2], e[k][1], e[k][2])>> \o RowsOneWay(e, K \ {k})

RECURSIVE RowsOf(_, _)
\* lines 187-190 over the keys K of e.  The dict's order is not modelled: the sort
\* that follows orders the rows by (from, to), and rows that tie there are equal.
RowsOf(e, K) ==
    IF K = {} THEN <<>>
    ELSE LET k == CHOOSE x \in K : TRUE
         IN  <<Row(k[1], k[2], e[k][1], e[k][2]), Row(k[2], k[1], e[k][1], e[k][2])>>
                 \o RowsOf(e, K \ {k})

WrittenRows(e) == SortRows(RowsOf(e, DOMAIN e))

(***************************************************************************)
(* main of regenerate_edges.py                                             *)
(***************************************************************************)
NoEdges == [k \in {} |-> <<0, TRUE>>]

Logged(step, cs) ==
    {[step |-> step, branch |-> (IF "branch" \in DOMAIN cs[i] THEN cs[i].branch ELSE step),
      a |-> cs[i].a, b |-> cs[i].b, dist |-> cs[i].dist, acc |-> cs[i].acc] :
        i \in 1..Len(cs)}

\* a node table: n rows, the first k on floor "G" and the rest on floor "1"
Table(n, k, ty) ==
    [i \in 1..n |->
        [id |-> IDS[i], floor |-> (IF i <= k THEN "G" ELSE "1"), type |-> ty[i],
         x |-> POS[i][1], y |-> POS[i][2]]]

Init ==
    /\ prog = "regenerate_edges"
    /\ \E n \in 1..MaxNodes : \E k \in 0..n : \E ty \in [1..n -> Types] :
           nodes = Table(n, k, ty)
    /\ edges = NoEdges
    /\ pc = "mesh"
    /\ fi = 1
    /\ calls = {}
    /\ rows = <<>>
    /\ trace = <<>>
    /\ image = NoImage /\ all_edges = <<>> /\ args = <<>> /\ result = FALSE

CorridorMesh ==
    /\ prog = "regenerate_edges" /\ pc = "mesh"
    /\ LET cs == MeshCalls(FloorIds(FloorOrder[fi]))
       IN  /\ edges' = ApplyCalls(edges, cs)
           /\ calls' = calls \cup Logged("mesh", cs)
    /\ pc' = "leaf"
    /\ UNCHANGED <<prog, nodes, fi, rows, trace, genVars>>

LeafAttach ==
    /\ prog = "regenerate_edges" /\ pc = "leaf"
    /\ LET cs == LeafCalls(FloorIds(FloorOrder[fi]))
       IN  /\ edges' = ApplyCalls(edges, cs)
           /\ calls' = calls \cup Logged("leaf", cs)
    /\ pc' = "repair"
    /\ UNCHANGED <<prog, nodes, fi, rows, trace, genVars>>

ConnectComponents ==
    /\ prog = "regenerate_edges" /\ pc = "repair"
    /\ LET ids == FloorIds(FloorOrder[fi])
       IN  \E cl \in CompOrders(Components(ids, edges)) :
               LET cs == connect_components(ids, cl)
               IN  /\ edges' = ApplyCalls(edges, cs)
                   /\ calls' = calls \cup Logged("repair", cs)
    /\ IF fi < Len(FloorOrder)
       THEN fi' = fi + 1 /\ pc' = "mesh"
       ELSE fi' = fi /\ pc' = "stairs"
    /\ UNCHANGED <<prog, nodes, rows, trace, genVars>>

StairLinks ==
    /\ prog = "regenerate_edges" /\ pc = "stairs"
    /\ LET cs == LinkCalls(StairGroups, FALSE)
       IN  /\ edges' = ApplyCalls(edges, cs)
           /\ calls' = calls \cup Logged("stairs", cs)
    /\ pc' = "lifts"
    /\ UNCHANGED <<prog, nodes, fi, rows, trace, genVars>>

LiftLinks ==
    /\ prog = "regenerate_edges" /\ pc = "lifts"
    /\ LET cs == LinkCalls(LiftGroups, TRUE)
       IN  /\ edges' = ApplyCalls(edges, cs)
           /\ calls' = calls \cup Logged("lifts", cs)
    /\ pc' = "write"
    /\ UNCHANGED <<prog, nodes, fi, rows, trace, genVars>>

WriteRows ==
    /\ prog = "regenerate_edges" /\ pc = "write"
    /\ rows' = WrittenRows(edges)
    /\ pc' = "done"
    /\ UNCHANGED <<prog, nodes, edges, fi, calls, trace, genVars>>

Next ==
    \/ CorridorMesh
    \/ LeafAttach
    \/ ConnectComponents
    \/ StairLinks
    \/ LiftLinks
    \/ WriteRows

Spec == Init /\ [][Next]_vars

(***************************************************************************)
(* main on a floor that falls into three components: one corridor and two  *)
(* clusters of outside entrances, each entrance having its three nearest   *)
(* entrances (itself among them) inside its own cluster                    *)
(***************************************************************************)
StitchIds ==
    <<"corr_ff_3", "room_gf_10", "room_gf_101", "room_gf_102",
      "room_gf_103", "room_gf_120", "room_gf_121">>

\* where the corridor stands, and how far the second cluster is from the first
CorridorSpots == {<<0, 0>>, <<15, 5>>, <<30, 0>>, <<15, -20>>}
ClusterGaps == {10, 12}

StitchTable(spot, gap, last) ==
    LET at == <<spot, <<10, 0>>, <<11, 0>>, <<10, 1>>,
                <<10 + gap, 0>>, <<11 + gap, 0>>, <<10 + gap, 1>> >>
    IN  [i \in 1..7 |->
            [id |-> StitchIds[i], floor |-> "G",
             type |-> (IF i = 1 THEN "corridor" ELSE IF i = 7 THEN last ELSE "entrance"),
             x |-> at[i][1], y |-> at[i][2]]]

InitStitch ==
    /\ prog = "regenerate_edges"
    /\ \E spot \in CorridorSpots : \E gap \in ClusterGaps : \E last \in {"entrance", "room"} :
           nodes = StitchTable(spot, gap, last)
    /\ edges = NoEdges
    /\ pc = "mesh"
    /\ fi = 1
    /\ calls = {}
    /\ rows = <<>>
    /\ trace = <<>>
    /\ image = NoImage /\ all_edges = <<>> /\ args = <<>> /\ result = FALSE

SpecStitch == InitStitch /\ [][Next]_vars

(***************************************************************************)
(* add_edge on its own: any sequence of calls                              *)
(***************************************************************************)
MaxWeight == 2

\* the (a, b) arguments of the calls: one pair in both orientations, a second
\* pair, and a pair with a = b
AddEdgeArgs ==
    {<<IDS[1], IDS[2]>>, <<IDS[2], IDS[1]>>, <<IDS[1], IDS[3]>>, <<IDS[3], IDS[3]>>}

InitAddEdge ==
    /\ prog = "add_edge"
    /\ nodes = <<>>
    /\ edges = NoEdges
    /\ pc = "calls"
    /\ fi = 0
    /\ calls = {}
    /\ rows = <<>>
    /\ trace = <<>>
    /\ image = NoImage /\ all_edges = <<>> /\ args = <<>> /\ result = FALSE

AddEdgeCall ==
    /\ prog = "add_edge"
    /\ Len(trace) < MaxCalls
    /\ \E ab \in AddEdgeArgs : \E dist \in 0..MaxWeight : \E accessible \in BOOLEAN :
           /\ edges' = add_edge(edges, ab[1], ab[2], dist, accessible)
           /\ trace' = Append(trace, Call(ab[1], ab[2], dist, accessible))
    /\ UNCHANGED <<prog, nodes, pc, fi, calls, rows, genVars>>

NextAddEdge == AddEdgeCall

SpecAddEdge == InitAddEdge /\ [][NextAddEdge]_vars

(***************************************************************************)
(* generate_all_edges.py: has_collision                                    *)
(*                                                                         *)
(* An image is a record: its size, its mode ("L" or "RGB"), and its dark   *)
(* pixels, which form bands: the columns (orient "cols") or the rows       *)
(* (orient "rows") off + i, i in dark.  NoImage stands for None.  A scale  *)
(* factor is a fraction <<num, den>>, den > 0; the fractions used are      *)
(* exact as floats (den a power of two), so int(v * s) is the quotient     *)
(* num*v / den cut towards zero.                                           *)
(***************************************************************************)
MARGIN == 5
DARK_THRESHOLD == 100
WALL_RUN == 3

\* pixels[px, py] of the image
PixelValue(img, px, py) ==
    LET band == IF img.orient = "cols" THEN px ELSE py
        isDark == (band - img.off) \in img.dark
    IN  IF img.mode = "RGB"
        THEN (IF isDark THEN <<99, 100, 100>> ELSE <<100, 100, 100>>)
        ELSE (IF isDark THEN 99 ELSE 100)

\* three times the brightness of lines 174-178 (sum(val[:3]) / 3, or val)
Brightness3(img, val) ==
    IF img.mode = "RGB" THEN val[1] + val[2] + val[3] ELSE 3 * val

Abs(n) == IF n < 0 THEN -n ELSE n

\* int(v * s), lines 114-115
ToPixel(v, s) ==
    IF v * s[1] >= 0 THEN (v * s[1]) \div s[2] ELSE -((-(v * s[1])) \div s[2])

RECURSIVE LineLoop(_, _, _, _, _, _, _, _)
\* lines 146-152, with err2 = 2 * error
LineLoop(x, x2, y, err2, dx, dy, ystep, steep) ==
    IF x > x2 THEN <<>>
    ELSE LET coord == IF steep THEN <<y, x>> ELSE <<x, y>>
             e1 == err2 - 2 * dy
         IN  <<coord>> \o
                 (IF e1 < 0
                  THEN LineLoop(x + 1, x2, y + ystep, e1 + 2 * dx, dx, dy, ystep, steep)
                  ELSE LineLoop(x + 1, x2, y, e1, dx, dy, ystep, steep))

PathPixelsNoSteep(px1, py1, px2, py2) ==
    LET x1 == IF px1 > px2 THEN px2 ELSE px1
        y1 == IF px1 > px2 THEN py2 ELSE py1
        x2 == IF px1 > px2 THEN px1 ELSE px2
        y2 == IF px1 > px2 THEN py1 ELSE py2
        dx == x2 - x1
        dy == Abs(y2 - y1)
        ystep == IF y1 < y2 THEN 1 ELSE -1
    IN  LineLoop(x1, x2, y1, dx, dx, dy, ystep, FALSE)

PathPixelsNoSwap(px1, py1, px2, py2) ==
    LET steep == Abs(py2 - py1) > Abs(px2 - px1)
        x1 == IF steep THEN py1 ELSE px1
        y1 == IF steep THEN px1 ELSE py1
        x2 == IF steep THEN py2 ELSE px2
        y2 == IF steep THEN px2 ELSE py2
        dx == Abs(x2 - x1)
        dy == Abs(y2 - y1)
        ystep == IF y1 < y2 THEN 1 ELSE -1
    IN  LineLoop(x1, x2, y1, dx, dx, dy, ystep, steep)

\* lines 124-152: path_pixels for the pixel endpoints (px1, py1), (px2, py2)
PathPixels(px1, py1, px2, py2) ==
    LET steep == Abs(py2 - py1) > Abs(px2 - px1)
        ax1 == IF steep THEN py1 ELSE px1
        ay1 == IF steep THEN px1 ELSE py1
        ax2 == IF steep THEN py2 ELSE px2
        ay2 == IF steep THEN px2 ELSE py2
        x1 == IF ax1 > ax2 THEN ax2 ELSE ax1
        y1 == IF ax1 > ax2 THEN ay2 ELSE ay1
        x2 == IF ax1 > ax2 THEN ax1 ELSE ax2
        y2 == IF ax1 > ax2 THEN ay1 ELSE ay2
        dx == x2 - x1
        dy == Abs(y2 - y1)
        ystep == IF y1 < y2 THEN 1 ELSE -1
    IN  LineLoop(x1, x2, y1, dx, dx, dy, ystep, steep)

CheckPixelsUntrimmed(path) == path

\* lines 157-161
CheckPixels(path) ==
    IF Len(path) <= MARGIN * 2 THEN path
    ELSE SubSeq(path, MARGIN + 1, Len(path) - MARGIN)

RECURSIVE ScanLoopNoReset(_, _, _)
ScanLoopNoReset(ps, img, hits) ==
    IF ps = <<>> THEN FALSE
    ELSE LET px == Head(ps)[1]
             py == Head(ps)[2]
         IN  IF 0 <= px /\ px < img.w /\ 0 <= py /\ py < img.h
             THEN IF Brightness3(img, PixelValue(img, px, py)) < 3 * DARK_THRESHOLD
                  THEN (IF hits + 1 >= WALL_RUN THEN TRUE
                        ELSE ScanLoopNoReset(Tail(ps), img, hits + 1))
                  ELSE ScanLoopNoReset(Tail(ps), img, hits)
             ELSE ScanLoopNoReset(Tail(ps), img, hits)

RECURSIVE ScanLoop(_, _, _)
\* lines 163-188: the loop over check_pixels, consecutive_hits = hits
ScanLoop(ps, img, hits) ==
    IF ps = <<>> THEN FALSE
    ELSE LET px == Head(ps)[1]
             py == Head(ps)[2]
         IN  IF 0 <= px /\ px < img.w /\ 0 <= py /\ py < img.h
             THEN IF Brightness3(img, PixelValue(img, px, py)) < 3 * DARK_THRESHOLD
                  THEN (IF hits + 1 >= WALL_RUN THEN TRUE
                        ELSE ScanLoop(Tail(ps), img, hits + 1))
                  ELSE ScanLoop(Tail(ps), img, 0)
             ELSE ScanLoop(Tail(ps), img, hits)

\* has_collision(a, b, image, scale)
has_collision(a, b, img, scale) ==
    IF img = NoImage THEN FALSE
    ELSE LET x1 == ToPixel(a.x, scale[1])
             y1 == ToPixel(a.y, scale[2])
             x2 == ToPixel(b.x, scale[1])
             y2 == ToPixel(b.y, scale[2])
             w == img.w
             h == img.h
         IN  IF (x1 < 0 \/ x1 >= w \/ y1 < 0 \/ y1 >= h)
                /\ (x2 < 0 \/ x2 >= w \/ y2 < 0 \/ y2 >= h)
             THEN FALSE
             ELSE ScanLoop(CheckPixels(PathPixels(x1, y1, x2, y2)), img, 0)

(***************************************************************************)
(* generate_all_edges.py: the script                                       *)
(*                                                                         *)
(* distance(a, b) is math.hypot again, represented by its square; the      *)
(* cut-offs compare it with MAX_DIST and MAX_DIST + 20, squared here.      *)
(***************************************************************************)
MAX_DIST == 150
ROOM_NEIGHBORS == 2
CONNECTOR_NEIGHBORS == 1
STAIR_LEEWAY == 20

\* the keys of `floors`, in order
GenFloors == <<"G", "1", "2", "3">>
\* floor_order of vertical_links
FloorRank == ("G" :> 0) @@ ("1" :> 1) @@ ("2" :> 2) @@ ("3" :> 3)

distance(a, b) == (a.x - b.x) * (a.x - b.x) + (a.y - b.y) * (a.y - b.y)

\* round(distance(a, b), 2), in hundredths
Round2(d2) == Hundredths(d2)

connect(a, b) ==
    [from |-> a.id, to |-> b.id, distance |-> Round2(distance(a, b)), accessible |-> "true"]

\* df of the floor: the rows of its node file (no rows: the file is missing)
FloorRows(floor) ==
    LET OnFloor(n) == n.floor = floor
    IN  Filter(OnFloor, nodes)

OfType(df, typ) ==
    LET IsTyp(n) == n.type = typ
    IN  Filter(IsTyp, df)

\* floor_image of the floor: the plan of floor "G"; the other floors' SVG is missing
FloorImage(floor) == IF floor = "G" THEN image ELSE NoImage

\* scale_factors, lines 210-216
ScaleFactors(img) ==
    IF img = NoImage THEN << <<1, 1>>, <<1, 1>> >>
    ELSE << (IF img.svg_w # 0 THEN <<img.w, img.svg_w>> ELSE <<1, 1>>),
            (IF img.svg_h # 0 THEN <<img.h, img.svg_h>> ELSE <<1, 1>>) >>

\* sorted(corridors, key=lambda c: distance(n, c))
ByDistance(n, corridors) ==
    LET srt == SortByKey([i \in 1..Len(corridors) |-> <<distance(n, corridors[i]), corridors[i]>>])
    IN  [i \in 1..Len(srt) |-> srt[i][2]]

RECURSIVE RoomLoopBlind(_, _, _, _)
RoomLoopBlind(r, cands, connected_count, img) ==
    IF cands = <<>> THEN <<>>
    ELSE LET cand == Head(cands)
         IN  IF distance(r, cand) > MAX_DIST * MAX_DIST THEN <<>>
             ELSE <<connect(r, cand), connect(cand, r)>> \o
                      (IF connected_count + 1 >= ROOM_NEIGHBORS THEN <<>>
                       ELSE RoomLoopBlind(r, Tail(cands), connected_count + 1, img))

RECURSIVE RoomLoop(_, _, _, _)
\* lines 234-247: the rows appended for room r over the candidates left
RoomLoop(r, cands, connected_count, img) ==
    IF cands = <<>> THEN <<>>
    ELSE LET cand == Head(cands)
         IN  IF distance(r, cand) > MAX_DIST * MAX_DIST THEN <<>>
             ELSE IF has_collision(r, cand, img, ScaleFactors(img))
             THEN RoomLoop(r, Tail(cands), connected_count, img)
             ELSE <<connect(r, cand), connect(cand, r)>> \o
                      (IF connected_count + 1 >= ROOM_NEIGHBORS THEN <<>>
                       ELSE RoomLoop(r, Tail(cands), connected_count + 1, img))

\* lines 227-247: 1. Rooms -> Nearest Corridors
RoomRows(df, img) ==
    LET corridors == OfType(df, "corridor")
        Of(r) == RoomLoop(r, ByDistance(r, corridors), 0, img)
    IN  FlatMap(Of, OfType(df, "room"))

\* lines 249-261: 2. Corridors -> Neighbors in range
CorridorRows(df, img) ==
    LET corridors == OfType(df, "corridor")
        Of(c) ==
            LET Link(o) ==
                    IF c.id = o.id THEN <<>>
                    ELSE IF distance(c, o) <= MAX_DIST * MAX_DIST
                            /\ ~has_collision(c, o, img, ScaleFactors(img))
                    THEN <<connect(c, o)>>
                    ELSE <<>>
            IN  FlatMap(Link, corridors)
    IN  FlatMap(Of, corridors)

RECURSIVE ConnectorLoop(_, _, _, _)
\* lines 267-279: the rows appended for the stair or lift s
ConnectorLoop(s, cands, connected_count, img) ==
    IF cands = <<>> THEN <<>>
    ELSE LET cand == Head(cands)
         IN  IF distance(s, cand) > (MAX_DIST + STAIR_LEEWAY) * (MAX_DIST + STAIR_LEEWAY)
             THEN <<>>
             ELSE IF has_collision(s, cand, img, ScaleFactors(img))
             THEN ConnectorLoop(s, Tail(cands), connected_count, img)
             ELSE <<connect(s, cand), connect(cand, s)>> \o
                      (IF connected_count + 1 >= CONNECTOR_NEIGHBORS THEN <<>>
                       ELSE ConnectorLoop(s, Tail(cands), connected_count + 1, img))

\* lines 263-279: 3. Stairs/Lifts -> Nearest Corridors
ConnectorRows(df, img) ==
    LET corridors == OfType(df, "corridor")
        Of(n) == ConnectorLoop(n, ByDistance(n, corridors), 0, img)
    IN  FlatMap(Of, OfType(df, "stair") \o OfType(df, "lift"))

\* lines 302-309: base of an id, <<>> when the node is skipped
VerticalBase(id) ==
    LET cs == IdChars[id]
        IsDigit(c) == c \in Digits
        digits == Filter(IsDigit, cs)
        seps == {i \in 1..Len(cs) : cs[i] = "_"}
        last == CHOOSE i \in seps : \A j \in seps : j <= i
    IN  IF digits # <<>> THEN digits
        ELSE IF seps # {} THEN SubSeq(cs, last + 1, Len(cs))
        ELSE <<>>

RECURSIVE SortByFloor(_)
\* sorted(group, key=lambda x: floor_order.get(str(x["floor"]), 99)): stable
SortByFloor(g) ==
    IF g = <<>> THEN <<>>
    ELSE LET rest == SortByFloor(SubSeq(g, 1, Len(g) - 1))
             p == g[Len(g)]
             n == Cardinality({i \in 1..Len(rest) : FloorRank[rest[i].floor] <= FloorRank[p.floor]})
         IN  SubSeq(rest, 1, n) \o <<p>> \o SubSeq(rest, n + 1, Len(rest))

\* vertical_links(nodes, typ), lines 295-335
vertical_links(all, typ) ==
    LET Grouped(n) == n.type = typ /\ VerticalBase(n.id) # <<>>
        members == Filter(Grouped, all)
        IsFirst(i) == \A j \in 1..(i - 1) : VerticalBase(members[j].id) # VerticalBase(members[i].id)
        firsts == Filter(IsFirst, [i \in 1..Len(members) |-> i])
        acc == IF typ = "lift" THEN "true" ELSE "false"
        Of(f) ==
            LET SameKey(n) == VerticalBase(n.id) = VerticalBase(members[f].id)
                group == SortByFloor(Filter(SameKey, members))
                Pair(i) ==
                    <<[from |-> group[i].id, to |-> group[i + 1].id, distance |-> 0, accessible |-> acc],
                      [from |-> group[i + 1].id, to |-> group[i].id, distance |-> 0, accessible |-> acc]>>
            IN  IF Len(group) < 2 THEN <<>>
                ELSE FlatMap(Pair, [i \in 1..(Len(group) - 1) |-> i])
    IN  FlatMap(Of, firsts)

\* drop_duplicates(subset=["from", "to"]): the first row of every (from, to)
DropDuplicates(rs) ==
    LET Keep(i) == \A j \in 1..(i - 1) : rs[j].from # rs[i].from \/ rs[j].to # rs[i].to
        kept == Filter(Keep, [i \in 1..Len(rs) |-> i])
    IN  [k \in 1..Len(kept) |-> rs[kept[k]]]

MaxGenNodes == 4

\* coordinates of slot i, in SVG units
GPOS == << <<0, 8>>, <<56, 24>>, <<120, 8>>, <<176, 8>>, <<120, 24>>, <<56, 8>> >>

GenTypes == {"room", "corridor", "stair", "lift"}

\* plans of floor "G": 16 x 4 pixels for 128 x 32 SVG units, with dark columns among 8..11
GenImages ==
    {[w |-> 16, h |-> 4, svg_w |-> 128, svg_h |-> 32, mode |-> "L", orient |-> "cols",
      off |-> 8, dark |-> d] : d \in {{}, {1}, {0, 1, 2}, {0, 1, 3}}}

GenTable(n, k, ty) ==
    [i \in 1..n |->
        [id |-> IDS[i], floor |-> (IF i <= k THEN "G" ELSE "1"), type |-> ty[i],
         x |-> GPOS[i][1], y |-> GPOS[i][2]]]

InitGen ==
    /\ prog = "generate_all_edges"
    /\ \E n \in 1..MaxGenNodes : \E k \in 0..n : \E ty \in [1..n -> GenTypes] :
           nodes = GenTable(n, k, ty)
    /\ image \in GenImages
    /\ all_edges = <<>>
    /\ pc = "rooms"
    /\ fi = 1
    /\ rows = <<>>
    /\ edges = NoEdges /\ calls = {} /\ trace = <<>> /\ args = <<>> /\ result = FALSE

\* lines 199-201: the floor's node file is missing
SkipFloor ==
    /\ prog = "generate_all_edges" /\ pc = "rooms"
    /\ fi <= Len(GenFloors) /\ FloorRows(GenFloors[fi]) = <<>>
    /\ fi' = fi + 1
    /\ UNCHANGED <<prog, nodes, edges, pc, calls, rows, trace, image, all_edges, args, result>>

RoomsToCorridors ==
    /\ prog = "generate_all_edges" /\ pc = "rooms"
    /\ fi <= Len(GenFloors) /\ FloorRows(GenFloors[fi]) # <<>>
    /\ all_edges' = all_edges \o RoomRows(FloorRows(GenFloors[fi]), FloorImage(GenFloors[fi]))
    /\ pc' = "corridors"
    /\ UNCHANGED <<prog, nodes, edges, fi, calls, rows, trace, image, args, result>>

CorridorsToNeighbors ==
    /\ prog = "generate_all_edges" /\ pc = "corridors"
    /\ all_edges' = all_edges \o CorridorRows(FloorRows(GenFloors[fi]), FloorImage(GenFloors[fi]))
    /\ pc' = "connectors"
    /\ UNCHANGED <<prog, nodes, edges, fi, calls, rows, trace, image, args, result>>

ConnectorsToCorridors ==
    /\ prog = "generate_all_edges" /\ pc = "connectors"
    /\ all_edges' = all_edges \o ConnectorRows(FloorRows(GenFloors[fi]), FloorImage(GenFloors[fi]))
    /\ pc' = "rooms"
    /\ fi' = fi + 1
    /\ UNCHANGED <<prog, nodes, edges, calls, rows, trace, image, args, result>>

\* lines 284-338, once the loop over the floors has ended
VerticalEdges ==
    /\ prog = "generate_all_edges" /\ pc = "rooms" /\ fi > Len(GenFloors)
    /\ all_edges' = all_edges \o vertical_links(nodes, "stair") \o vertical_links(nodes, "lift")
    /\ pc' = "save"
    /\ UNCHANGED <<prog, nodes, edges, fi, calls, rows, trace, image, args, result>>

\* lines 340-347
Save ==
    /\ prog = "generate_all_edges" /\ pc = "save"
    /\ rows' = IF all_edges # <<>> THEN DropDuplicates(all_edges) ELSE rows
    /\ pc' = "done"
    /\ UNCHANGED <<prog, nodes, edges, fi, calls, trace, image, all_edges, args, result>>

NextGen ==
    \/ SkipFloor
    \/ RoomsToCorridors
    \/ CorridorsToNeighbors
    \/ ConnectorsToCorridors
    \/ VerticalEdges
    \/ Save

SpecGen == InitGen /\ [][NextGen]_vars

(***************************************************************************)
(* has_collision on its own: one call on arguments drawn from bounded sets *)
(***************************************************************************)
MaxPix == 12

\* the dark bands of an image: any of the bands off .. off+3
Bands == SUBSET (0..3)

CollisionImages ==
    {NoImage} \cup
    {[w |-> MaxPix, h |-> MaxPix, mode |-> m, orient |-> o, off |-> 5, dark |-> d] :
        m \in {"L", "RGB"}, o \in {"cols", "rows"}, d \in Bands}

\* first endpoints: inside the image, on its border, and outside it
PointsA ==
    {[x |-> 0, y |-> 0], [x |-> -1, y |-> 1], [x |-> 1, y |-> 3],
     [x |-> 6, y |-> 6], [x |-> 13, y |-> 2], [x |-> 3, y |-> -1]}

PointsB == {[x |-> px, y |-> py] : px \in -1..(MaxPix + 1), py \in -1..(MaxPix + 1)}

Scales == {<< <<1, 1>>, <<1, 1>> >>, << <<1, 2>>, <<1, 2>> >>}

InitCollision ==
    /\ prog = "has_collision"
    /\ nodes = <<>> /\ edges = NoEdges /\ fi = 0 /\ calls = {} /\ rows = <<>> /\ trace = <<>>
    /\ all_edges = <<>>
    /\ pc = "call"
    /\ image \in CollisionImages
    /\ \E a \in PointsA : \E b \in PointsB : \E sc \in Scales : args = <<a, b, sc>>
    /\ result = FALSE

Collide ==
    /\ prog = "has_collision" /\ pc = "call"
    /\ result' = has_collision(args[1], args[2], image, args[3])
    /\ pc' = "returned"
    /\ UNCHANGED <<prog, nodes, edges, fi, calls, rows, trace, image, all_edges, args>>

NextCollision == Collide

SpecCollision == InitCollision /\ [][NextCollision]_vars

(***************************************************************************)
(* Properties of regenerate_edges.py                                       *)
(***************************************************************************)
IdSet == Range(NodeIds)
FloorSet(floor) == {nid \in IdSet : N(nid).floor = floor}
Floors == {N(nid).floor : nid \in IdSet}
Linked(u, v) == <<u, v>> \in DOMAIN edges \/ <<v, u>> \in DOMAIN edges
RepairCalls == {c \in calls : c.step = "repair"}
LeafLog == {c \in calls : c.step = "leaf"}

\* C1: when main is done, on every floor that has a node, every way of splitting
\* the floor's nodes into two non-empty parts is crossed by an edge of the final
\* edge map: the floor's nodes with its floor-local edges are one component.
C1_FloorsConnected ==
    pc = "done" =>
        \A f \in Floors : \A S \in SUBSET FloorSet(f) :
            (S # {} /\ S # FloorSet(f)) =>
                \E u \in S : \E v \in FloorSet(f) \ S : Linked(u, v)

\* a finished run with a floor of three or more nodes, none of them a corridor,
\* one of them an outside node, which the repair pass had to stitch
C1_Witness ==
    /\ prog = "regenerate_edges" /\ pc = "done"
    /\ \E f \in Floors :
           /\ Cardinality(FloorSet(f)) >= 3
           /\ \A nid \in FloorSet(f) : N(nid).type # "corridor"
           /\ FloorSet(f) \cap OUTSIDE_NODE_IDS # {}
           /\ Cardinality({c \in RepairCalls : c.a \in FloorSet(f)}) >= 2

RowsFor(from, to) == {i \in 1..Len(rows) : rows[i].from = from /\ rows[i].to = to}

\* C2: when main is done, every canonical edge {a,b} of the edge map has exactly
\* two rows, (a,b) and (b,a), with the same distance and the same accessible value,
\* and the number of rows is twice the number of canonical edges.
C2_RowsSymmetric ==
    pc = "done" =>
        /\ Len(rows) = 2 * Cardinality(DOMAIN edges)
        /\ \A k \in DOMAIN edges :
               LET ab == RowsFor(k[1], k[2])
                   ba == RowsFor(k[2], k[1])
               IN  /\ Cardinality(ab \cup ba) = 2
                   /\ ab # {} /\ ba # {}
                   /\ \A i, j \in ab \cup ba :
                          /\ rows[i].distance = rows[j].distance
                          /\ rows[i].accessible = rows[j].accessible

\* a finished run that wrote rows for at least three edges, one of them inaccessible
C2_Witness ==
    /\ prog = "regenerate_edges" /\ pc = "done"
    /\ Cardinality(DOMAIN edges) >= 3
    /\ \E i \in 1..Len(rows) : rows[i].accessible = "false"
    /\ \E i \in 1..Len(rows) : rows[i].accessible = "true"

\* C3: no add_edge call of any step of main has a = b, and no row written has
\* from = to.
C3_NoSelfEdge ==
    /\ \A c \in calls : c.a # c.b
    /\ \A i \in 1..Len(rows) : rows[i].from # rows[i].to

RECURSIVE DigitSuffix(_)
\* the longest run of decimal digits an id ends in
DigitSuffix(cs) ==
    IF cs = <<>> \/ cs[Len(cs)] \notin Digits THEN <<>>
    ELSE Append(DigitSuffix(SubSeq(cs, 1, Len(cs) - 1)), cs[Len(cs)])

\* C4: when main is done, two stair nodes on different floors whose ids end in the
\* same digits are joined by an edge of the edge map that is not accessible and
\* weighs their planar distance.
C4_StairsLinked ==
    pc = "done" =>
        \A a, b \in IdSet :
            (/\ a # b
             /\ N(a).type = "stair" /\ N(b).type = "stair"
             /\ N(a).floor # N(b).floor
             /\ DigitSuffix(IdChars[a]) # <<>>
             /\ DigitSuffix(IdChars[a]) = DigitSuffix(IdChars[b]))
            => /\ EdgeKey(a, b) \in DOMAIN edges
               /\ edges[EdgeKey(a, b)] = <<euclid(a, b), FALSE>>

\* The run of main in which every set is iterated in the order of the node table.
TableOrder(S) ==
    LET InS(nid) == nid \in S
    IN  Filter(InS, NodeIds)

RECURSIVE RefComps(_, _)
\* the components of C, each in table order, ordered by their first node
RefComps(C, ids) ==
    IF C = {} THEN <<>>
    ELSE LET c == CHOOSE c \in C : TableOrder(c)[1] = ids[1]
             NotInC(nid) == nid \notin c
         IN  <<TableOrder(c)>> \o RefComps(C \ {c}, Filter(NotInC, ids))

RECURSIVE RefFloors(_, _)
RefFloors(e, i) ==
    IF i > Len(FloorOrder) THEN e
    ELSE LET ids == FloorIds(FloorOrder[i])
             e1 == ApplyCalls(e, MeshCalls(ids))
             e2 == ApplyCalls(e1, LeafCalls(ids))
             e3 == ApplyCalls(e2, connect_components(ids, RefComps(Components(ids, e2), ids)))
         IN  RefFloors(e3, i + 1)

RefRows ==
    WrittenRows(ApplyCalls(ApplyCalls(RefFloors(NoEdges, 1), LinkCalls(StairGroups, FALSE)),
                           LinkCalls(LiftGroups, TRUE)))

\* C5: every run of main on a node table writes the same rows, whatever the order
\* in which connect_components' sets hand out their members: the rows of any
\* finished run are those of the run that iterates every set in table order.
C5_Deterministic == pc = "done" => rows = RefRows

PairCalls(a, b) == {i \in 1..Len(trace) : {trace[i].a, trace[i].b} = {a, b}}
PairEntries(a, b) == {k \in DOMAIN edges : {k[1], k[2]} = {a, b}}

\* C6: after any sequence of add_edge calls, an unordered pair has an entry exactly
\* when a call named it, never two, and the entry is the (weight, accessible) of
\* the first call, in call order, whose weight is the least of the pair's calls.
C6_AddEdgeKeepsFirstMin ==
    \A ab \in AddEdgeArgs :
        LET I == PairCalls(ab[1], ab[2])
            E == PairEntries(ab[1], ab[2])
        IN  /\ Cardinality(E) <= 1
            /\ (I = {}) = (E = {})
            /\ I # {} =>
                   LET first == CHOOSE i \in I :
                           /\ \A j \in I : trace[i].dist <= trace[j].dist
                           /\ \A j \in I : trace[j].dist = trace[i].dist => i <= j
                   IN  \A k \in E : edges[k] = <<trace[first].dist, trace[first].acc>>

\* three calls for one pair in both orientations: the second strictly lower than
\* the first, the third as low as the second but with the other accessible value
C6_Witness ==
    /\ prog = "add_edge" /\ Len(trace) = 3
    /\ trace[1].a # trace[1].b
    /\ trace[2].a = trace[1].b /\ trace[2].b = trace[1].a
    /\ trace[3].a = trace[1].a /\ trace[3].b = trace[1].b
    /\ trace[2].dist < trace[1].dist
    /\ trace[3].dist = trace[2].dist
    /\ trace[3].acc # trace[2].acc

\* C7: every edge made by the leaf-attachment loop, on either branch, is stored
\* with accessible = false when the attached node is a stair and true otherwise.
C7_LeafAccessibility ==
    \A c \in LeafLog :
        /\ c.acc = (N(c.a).type # "stair")
        /\ edges[EdgeKey(c.a, c.b)][2] = (N(c.a).type # "stair")

\* the leaf-attachment loop has run on the floor of nid
LeafDone(nid) ==
    \/ pc \in {"stairs", "lifts", "write", "done"}
    \/ \E i \in 1..Len(FloorOrder) :
           /\ FloorOrder[i] = N(nid).floor
           /\ (i < fi \/ (i = fi /\ pc = "repair"))

Corridors(floor) == {nid \in FloorSet(floor) : N(nid).type = "corridor"}
Entrances(floor) == {nid \in FloorSet(floor) : N(nid).type = "entrance"}
MinDist(nid, S) == CHOOSE d \in {euclid(nid, s) : s \in S} : \A s \in S : d <= euclid(nid, s)

\* T is a choice of the (up to NODE_TO_CORRIDOR_NEIGHBORS) members of S nearest to nid
NearestOf(nid, S, T) ==
    /\ T \subseteq S
    /\ Cardinality(T) = (IF Cardinality(S) < NODE_TO_CORRIDOR_NEIGHBORS
                         THEN Cardinality(S) ELSE NODE_TO_CORRIDOR_NEIGHBORS)
    /\ \A t \in T : \A s \in S \ T : euclid(nid, t) <= euclid(nid, s)

LeafTargets(nid) == {c.b : c \in {c \in LeafLog : c.a = nid}}

\* what C8 says of the outside node nid
OutsideRule(nid) ==
    LET C == Corridors(N(nid).floor)
        E == Entrances(N(nid).floor)
    IN  (LeafDone(nid) /\ C # {} /\ E # {}) =>
            IF MinDist(nid, E) <= MinDist(nid, C)
            THEN NearestOf(nid, E, LeafTargets(nid))
            ELSE NearestOf(nid, C, LeafTargets(nid))

GenCorridors(floor) == {n \in Range(nodes) : n.floor = floor /\ n.type = "corridor"}
GenRooms == {n \in Range(nodes) : n.type = "room"}
Blocked(a, b) ==
    has_collision(a, b, FloorImage(a.floor), ScaleFactors(FloorImage(a.floor)))
RowSet == Range(all_edges) \cup Range(rows)
HasRow(a, b) == \E r \in RowSet : r.from = a.id /\ r.to = b.id

\* the room step has run on the floor
RoomsDone(floor) ==
    \/ pc \in {"save", "done"}
    \/ \E i \in 1..Len(GenFloors) :
           /\ GenFloors[i] = floor
           /\ (i < fi \/ (i = fi /\ pc \in {"corridors", "connectors"}))

\* the corridors of the room's floor within MAX_DIST that has_collision lets through
Reachable(r) ==
    {c \in GenCorridors(r.floor) : distance(r, c) <= MAX_DIST * MAX_DIST /\ ~Blocked(r, c)}

\* C9: every row that the three per-floor steps append joins two nodes of one
\* floor between which has_collision is false on that floor's image, and once the
\* room step has run on a floor each of its rooms is joined to exactly the nearest
\* (up to ROOM_NEIGHBORS) corridors that are within MAX_DIST and unobstructed, so
\* never to an obstructed one and to none when there is none.
C9_ObstructionRespected ==
    prog = "generate_all_edges" =>
        /\ \A r \in RowSet :
               (N(r.from).type = "corridor" \/ N(r.to).type = "corridor") =>
                   /\ N(r.from).floor = N(r.to).floor
                   /\ ~Blocked(N(r.from), N(r.to))
        /\ \A r \in GenRooms :
               RoomsDone(r.floor) =>
                   LET U == Reachable(r)
                       T == {c \in GenCorridors(r.floor) : HasRow(r, c)}
                   IN  /\ T \subseteq U
                       /\ Cardinality(T) = (IF Cardinality(U) < ROOM_NEIGHBORS
                                            THEN Cardinality(U) ELSE ROOM_NEIGHBORS)
                       /\ \A t \in T : \A u \in U \ T : distance(r, t) <= distance(r, u)
                       /\ \A c \in GenCorridors(r.floor) : HasRow(c, r) = HasRow(r, c)

\* a room whose nearest corridor is within MAX_DIST but obstructed, joined to a
\* farther corridor instead and not to the nearest
C9_Witness ==
    /\ prog = "generate_all_edges" /\ pc = "done"
    /\ \E r \in GenRooms : \E c1, c2 \in GenCorridors(r.floor) :
           /\ \A c \in GenCorridors(r.floor) : c # c1 => distance(r, c1) < distance(r, c)
           /\ distance(r, c1) <= MAX_DIST * MAX_DIST
           /\ Blocked(r, c1)
           /\ HasRow(r, c2) /\ ~HasRow(r, c1)

(***************************************************************************)
(* Properties of has_collision                                             *)
(***************************************************************************)
ArgPixels ==
    <<ToPixel(args[1].x, args[3][1]), ToPixel(args[1].y, args[3][2]),
      ToPixel(args[2].x, args[3][1]), ToPixel(args[2].y, args[3][2])>>
Inside(px, py) == 0 <= px /\ px < image.w /\ 0 <= py /\ py < image.h
\* the pixels has_collision samples for its arguments
Sampled == CheckPixels(PathPixels(ArgPixels[1], ArgPixels[2], ArgPixels[3], ArgPixels[4]))
\* a sampled pixel that lies in the image and is darker than the threshold
DarkAt(i) ==
    /\ Inside(Sampled[i][1], Sampled[i][2])
    /\ IF image.mode = "RGB"
       THEN LET v == PixelValue(image, Sampled[i][1], Sampled[i][2])
            IN  v[1] + v[2] + v[3] < 3 * DARK_THRESHOLD
       ELSE PixelValue(image, Sampled[i][1], Sampled[i][2]) < DARK_THRESHOLD
BrightAt(i) == Inside(Sampled[i][1], Sampled[i][2]) /\ ~DarkAt(i)
Judged ==
    /\ prog = "has_collision" /\ pc = "returned"
    /\ image # NoImage
    /\ (Inside(ArgPixels[1], ArgPixels[2]) \/ Inside(ArgPixels[3], ArgPixels[4]))

\* C10: with an image and an endpoint inside it, has_collision returns true
\* exactly when WALL_RUN (3) successive sampled pixels are all in the image and
\* dark; so one or two dark pixels between bright ones never block.
C10_RunOfThree ==
    Judged =>
        (result = \E i \in 1..(Len(Sampled) - WALL_RUN + 1) :
                      \A j \in i..(i + WALL_RUN - 1) : DarkAt(j))

\* dark, dark, bright, dark along the sampled pixels, and no collision reported
C10_Witness ==
    /\ Judged
    /\ result = FALSE
    /\ \E i \in 1..(Len(Sampled) - 5) :
           /\ BrightAt(i) /\ DarkAt(i + 1) /\ DarkAt(i + 2)
           /\ BrightAt(i + 3) /\ DarkAt(i + 4) /\ BrightAt(i + 5)

\* path_pixels of the call, and of the call with its endpoints exchanged
Path == PathPixels(ArgPixels[1], ArgPixels[2], ArgPixels[3], ArgPixels[4])
PathBack == PathPixels(ArgPixels[3], ArgPixels[4], ArgPixels[1], ArgPixels[2])
SpanX == Abs(ArgPixels[3] - ArgPixels[1])
SpanY == Abs(ArgPixels[4] - ArgPixels[2])

\* C11: whenever has_collision builds path_pixels, the list has
\* max(|x2-x1|, |y2-y1|) + 1 pixels, its first and last pixels are the two
\* endpoint pixels, and successive pixels differ by exactly 1 along the dominant
\* axis and by at most 1 along the other.
C11_PathShape ==
    Judged =>
        LET n == (IF SpanX > SpanY THEN SpanX ELSE SpanY) + 1
            dom == IF SpanY > SpanX THEN 2 ELSE 1
            oth == 3 - dom
        IN  /\ Len(Path) = n
            /\ {Path[1], Path[n]} =
                   {<<ArgPixels[1], ArgPixels[2]>>, <<ArgPixels[3], ArgPixels[4]>>}
            /\ \A i \in 1..(n - 1) :
                   /\ Abs(Path[i + 1][dom] - Path[i][dom]) = 1
                   /\ Abs(Path[i + 1][oth] - Path[i][oth]) <= 1

\* a steep line drawn towards smaller y that also moves sideways
C11_Witness ==
    /\ Judged
    /\ SpanY > SpanX /\ SpanX >= 2
    /\ ArgPixels[4] < ArgPixels[2]
    /\ ArgPixels[3] < ArgPixels[1]
    /\ Len(Path) = SpanY + 1

\* C12: exchanging the endpoints leaves the sampled pixels and the answer
\* unchanged: the pixel sets of a -> b and b -> a are equal, before and after
\* trimming, and has_collision(b, a, image, scale) is what the call returned.
C12_Symmetric ==
    (prog = "has_collision" /\ pc = "returned") =>
        /\ Range(Path) = Range(PathBack)
        /\ Range(CheckPixels(Path)) = Range(CheckPixels(PathBack))
        /\ result = has_collision(args[2], args[1], image, args[3])

\* a blocked call whose first endpoint lies right of and below the second
C12_Witness ==
    /\ Judged
    /\ result = TRUE
    /\ ArgPixels[1] > ArgPixels[3] /\ ArgPixels[2] > ArgPixels[4]
    /\ has_collision(args[2], args[1], image, args[3]) = TRUE

\* the pixels of the whole path that are in the image and dark
PathDark ==
    {i \in 1..Len(Path) :
        /\ Inside(Path[i][1], Path[i][2])
        /\ Brightness3(image, PixelValue(image, Path[i][1], Path[i][2]))
               < 3 * DARK_THRESHOLD}
\* the positions within MARGIN pixels of an end of the path
NearEnds == {i \in 1..Len(Path) : i <= MARGIN \/ i > Len(Path) - MARGIN}

\* C13: whatever the length of the path, dark pixels that lie only among the
\* MARGIN pixels at either end never make has_collision return true.
C13_MarginIgnored ==
    (Judged /\ PathDark \subseteq NearEnds) => result = FALSE

(***************************************************************************)
(* Lift links of regenerate_edges.py                                       *)
(***************************************************************************)
LiftCalls == {c \in calls : c.step = "lifts"}
LiftPairs == {{c.a, c.b} : c \in LiftCalls}
Lifts == {nid \in IdSet : N(nid).type = "lift"}

\* C15: once the lift step has run, the pairs it called add_edge on are exactly
\* the pairs of lift nodes on different floors, each with accessible = true; no
\* pair of lifts of one floor is among them.
C15_LiftPairs ==
    (prog = "regenerate_edges" /\ pc \in {"write", "done"}) =>
        /\ LiftPairs = {{p[1], p[2]} : p \in {q \in Lifts \X Lifts : N(q[1]).floor # N(q[2]).floor}}
        /\ \A c \in LiftCalls : c.acc = TRUE

(***************************************************************************)
(* Stitching of connect_components                                         *)
(***************************************************************************)
\* the nodes a side may use: its corridors, or all of it when it has none
Preferred(side) ==
    LET cs == {n \in side : IsCorridor(n)}
    IN  IF cs # {} THEN cs ELSE side

\* the calls cs stitch the components cl as claimed: the i-th call joins the
\* components merged so far to the next one, by a closest pair of preferred nodes
StitchedAsClaimed(cl, cs) ==
    /\ Len(cs) = Len(cl) - 1
    /\ \A i \in 1..Len(cs) :
           LET merged == UNION {Range(cl[j]) : j \in 1..i}
               next == Range(cl[i + 1])
           IN  /\ cs[i].a \in Preferred(merged)
               /\ cs[i].b \in Preferred(next)
               /\ \A a \in Preferred(merged) : \A b \in Preferred(next) :
                      euclid(cs[i].a, cs[i].b) <= euclid(a, b)

\* C14: whenever main is about to repair a floor, then for every order in which
\* connect_components can discover the floor's components, each stitching edge
\* joins the components merged so far to the next component, uses a corridor
\* on each side that has one, and is a closest pair among those allowed.
C14_CorridorsPreferred ==
    (prog = "regenerate_edges" /\ pc = "repair") =>
        LET ids == FloorIds(FloorOrder[fi])
        IN  \A cl \in CompOrders(Components(ids, edges)) :
                Len(cl) > 1 => StitchedAsClaimed(cl, connect_components(ids, cl))

====
